---- MODULE Spec2Model ----
(***************************************************************************)
(* A model of the simple-rays ray caster (src/src/main.rs, vector.rs,      *)
(* line.rs, surface.rs).                                                   *)
(*                                                                         *)
(* Five specifications share the module:                                   *)
(*   SpecRays  - one render pass of cast_rays: the buffer is split into    *)
(*               chunks, one task per chunk is handed to the thread pool,  *)
(*               the tasks run interleaved and the driver joins them.      *)
(*   SpecGeom  - Plane::new, Triangle::new and Triangle::contains on       *)
(*               lattice points.                                           *)
(*   SpecMesh  - Triangle::new and Triangle::contains in f64 arithmetic,   *)
(*               on mesh vertices with decimal coordinates.                *)
(*   SpecCast  - cast_ray and compute_lights on small scenes.              *)
(*   SpecFold  - the fold of Triangle::is_inside on triples of vectors.    *)
(*                                                                         *)
(* Numbers.  SpecGeom, SpecCast and SpecFold compute in exact rationals    *)
(* [n, d] in lowest terms with d > 0: their inputs are small lattice       *)
(* values, for which f64 arithmetic is exact or its rounding error is many *)
(* orders of magnitude below FLOAT_EPS = 1e-8, the rational 1/10^8.        *)
(* SpecMesh computes in f64s [sgn, man, exp] with a significand of 53 bits *)
(* and the rounding of IEEE 754 (to nearest, ties to even): there the      *)
(* rounding error of a product of coordinates in the hundreds is of the    *)
(* size of FLOAT_EPS.  The operations of vector.rs and surface.rs that     *)
(* SpecMesh needs are given a second time, in f64 arithmetic (f64_...).    *)
(***************************************************************************)
EXTENDS Integers, Sequences, FiniteSets, TLC

VARIABLES
    pc,          \* position of the driver / which operation has been applied
    num_cpus,    \* num_cpus::get()
    chunks_size, \* cast_rays: pixel_count / num_cpus::get()
    offset,      \* cast_rays: the accumulated offset of the dispatch loop
    tasks,       \* the chunk tasks handed to scope.execute, in dispatch order
    buff,        \* cast_rays: the pixel buffer
    writes,      \* per buffer index, the ids of the tasks that wrote it, in order
    output,      \* what cast_rays returned to the driver
    inp,         \* the arguments of the operation under study (SpecGeom, SpecCast, SpecFold)
    res          \* what the operation returned

vars == <<pc, num_cpus, chunks_size, offset, tasks, buff, writes, output, inp, res>>

rays_vars == <<num_cpus, chunks_size, offset, tasks, buff, writes, output>>

\* -------------------------------------------------------------------------
\* Bounds

\* IMAGE_SIZE is (500, 500) in the program; the model renders a small image.
ImageW == 2
ImageH == 5
\* the largest number of hardware threads tried
MaxCpus == 4
\* lattice points have x in 0..MaxX and y, z in {0, 1}
MaxX == 2
\* probe points reach up to BaryMax triangle sides away from the triangle
BaryMax == 2
\* the largest number of surfaces in a scene
MaxSurfaces == 2
\* |cos| is rounded down to a multiple of 1 / CosRes
CosRes == 100
\* the vectors given to the fold have components of up to MaxFold / TinyScale
MaxFold == 2

\* -------------------------------------------------------------------------
\* Helpers

Min(a, b) == IF a <= b THEN a ELSE b

Abs(a) == IF a < 0 THEN -a ELSE a

\* -------------------------------------------------------------------------
\* cast_rays (main.rs 116-142)

IMAGE_SIZE == <<ImageW, ImageH>>

pixel_count == IMAGE_SIZE[1] * IMAGE_SIZE[2]

\* vec![[0, 0, 0]; pixel_count]: a slot that holds the placeholder
Placeholder == [cords |-> <<>>]

\* slice::chunks_mut(size): consecutive sub-slices of `size` elements, the
\* last one shorter when size does not divide len.  A chunk is [start, len],
\* start counted from 0.
chunks_overlapping(len, size) ==
    [k \in 1..((len + size - 1) \div size) |->
        [start |-> IF k = 1 THEN 0 ELSE (k - 1) * size - 1,
         len   |-> Min(size, len - (k - 1) * size)]]

chunks_exact_mut(len, size) ==
    [k \in 1..(len \div size) |->
        [start |-> (k - 1) * size, len |-> size]]

chunks_mut(len, size) ==
    [k \in 1..((len + size - 1) \div size) |->
        [start |-> (k - 1) * size,
         len   |-> Min(size, len - (k - 1) * size)]]

\* offset += chunk_len as u32
offset_not_advanced(off, chunk_len) == 0

next_offset(off, chunk_len) == off + chunk_len

\* .map(|i| i + offset).map(|i| (i / IMAGE_SIZE.1, i % IMAGE_SIZE.1))
cords_of(i, off) ==
    <<(i + off) \div IMAGE_SIZE[2], (i + off) % IMAGE_SIZE[2]>>

\* cast_ray(&env, &create_ray(&env, cords)): env is read-only during the pass,
\* so the colour is a function of the coordinates alone; the model keeps the
\* coordinates the colour was computed from.
pixel_of(cords) == [cords |-> cords]

\* pool.scoped returns when every job handed to scope.execute has finished
join_without_waiting(ts) == TRUE

all_jobs_finished(ts) == \A k \in 1..Len(ts) : ts[k].st = "done"

Running(ts) == {k \in 1..Len(ts) : ts[k].st = "running"}

Queued(ts) == {k \in 1..Len(ts) : ts[k].st = "queued"}

InitRays ==
    /\ pc = "main"
    /\ num_cpus \in 1..Min(MaxCpus, pixel_count)
    /\ chunks_size = 0
    /\ offset = 0
    /\ tasks = <<>>
    /\ buff = <<>>
    /\ writes = <<>>
    /\ output = <<>>
    /\ inp = <<>>
    /\ res = <<>>

\* lines 117-121: allocate the buffer, enter pool.scoped
CastRaysEnter ==
    /\ pc = "main"
    /\ chunks_size' = pixel_count \div num_cpus
    /\ buff' = [i \in 1..pixel_count |-> Placeholder]
    /\ writes' = [i \in 1..pixel_count |-> <<>>]
    /\ offset' = 0
    /\ tasks' = <<>>
    /\ pc' = "dispatch"
    /\ UNCHANGED <<inp, res, num_cpus, output>>

\* lines 122-134: one iteration of the loop over buff.chunks_mut(chunks_size)
Execute ==
    /\ pc = "dispatch"
    /\ Len(tasks) < Len(chunks_mut(pixel_count, chunks_size))
    /\ LET chunk == chunks_mut(pixel_count, chunks_size)[Len(tasks) + 1]
       IN /\ tasks' = Append(tasks, [start  |-> chunk.start,
                                     len    |-> chunk.len,
                                     offset |-> offset,
                                     st     |-> "queued",
                                     pos    |-> 0])
          /\ offset' = next_offset(offset, chunk.len)
    /\ UNCHANGED <<inp, res, pc, num_cpus, chunks_size, buff, writes, output>>

\* the loop is over: the closure given to pool.scoped ends and the scope joins
EndDispatch ==
    /\ pc = "dispatch"
    /\ Len(tasks) = Len(chunks_mut(pixel_count, chunks_size))
    /\ pc' = "join"
    /\ UNCHANGED <<inp, res, num_cpus, chunks_size, offset, tasks, buff, writes, output>>

\* a free pool thread takes the oldest queued job (the pool has num_cpus threads)
TakeJob ==
    /\ pc \in {"dispatch", "join"}
    /\ Queued(tasks) # {}
    /\ Cardinality(Running(tasks)) < num_cpus
    /\ LET k == CHOOSE q \in Queued(tasks) : \A r \in Queued(tasks) : q <= r
       IN tasks' = [tasks EXCEPT ![k].st = "running"]
    /\ UNCHANGED <<inp, res, pc, num_cpus, chunks_size, offset, buff, writes, output>>

\* lines 129-131: one iteration of  for (pixel, ray) in chunk.iter_mut().zip(rays)
WritePixel(k) ==
    /\ k \in Running(tasks)
    /\ tasks[k].pos < tasks[k].len
    /\ LET t   == tasks[k]
           idx == t.start + t.pos + 1
       IN /\ buff' = [buff EXCEPT ![idx] = pixel_of(cords_of(t.pos, t.offset))]
          /\ writes' = [writes EXCEPT ![idx] = Append(@, k)]
    /\ tasks' = [tasks EXCEPT ![k].pos = @ + 1]
    /\ UNCHANGED <<inp, res, pc, num_cpus, chunks_size, offset, output>>

\* the closure returns: the job is finished
FinishJob(k) ==
    /\ k \in Running(tasks)
    /\ tasks[k].pos = tasks[k].len
    /\ tasks' = [tasks EXCEPT ![k].st = "done"]
    /\ UNCHANGED <<inp, res, pc, num_cpus, chunks_size, offset, buff, writes, output>>

\* lines 135-141: the scope has joined, the buffer is returned
Return ==
    /\ pc = "join"
    /\ all_jobs_finished(tasks)
    /\ output' = buff
    /\ pc' = "returned"
    /\ UNCHANGED <<inp, res, num_cpus, chunks_size, offset, tasks, buff, writes>>

NextRays ==
    \/ CastRaysEnter
    \/ Execute
    \/ EndDispatch
    \/ TakeJob
    \/ \E k \in 1..Len(tasks) : WritePixel(k)
    \/ \E k \in 1..Len(tasks) : FinishJob(k)
    \/ Return

SpecRays == InitRays /\ [][NextRays]_vars

\* -------------------------------------------------------------------------
\* Claims about cast_rays (checked under SpecRays)

ChunkRange(t) == (t.start + 1)..(t.start + t.len)

\* C1: every task writes only buffer elements inside the chunk it was given,
\* the chunks of two different tasks have no element in common, and no buffer
\* index is ever written by two different tasks.
C1_DisjointWrites ==
    /\ \A k1, k2 \in 1..Len(tasks) :
           k1 # k2 => ChunkRange(tasks[k1]) \cap ChunkRange(tasks[k2]) = {}
    /\ \A idx \in 1..Len(writes) : \A j \in 1..Len(writes[idx]) :
           /\ idx \in ChunkRange(tasks[writes[idx][j]])
           /\ writes[idx][j] = writes[idx][1]

\* two tasks are running at once and both have already written pixels
C1_Witness ==
    \E k1, k2 \in Running(tasks) :
        k1 # k2 /\ tasks[k1].pos > 0 /\ tasks[k2].pos > 0

\* the buffer one single chunk at offset 0 produces (num_cpus = 1)
SingleChunkRender == [i \in 1..pixel_count |-> pixel_of(cords_of(i - 1, 0))]

\* C2: the returned buffer is the one a single worker produces: the pixel at
\* linear index i is computed from (i div IMAGE_SIZE.1, i mod IMAGE_SIZE.1),
\* and the offset every task captured is the start index of its chunk.
C2_SameForEveryPartition ==
    /\ \A k \in 1..Len(tasks) : tasks[k].offset = tasks[k].start
    /\ pc = "returned" =>
           /\ output = SingleChunkRender
           /\ \A i \in 1..pixel_count :
                  output[i].cords =
                      <<(i - 1) \div IMAGE_SIZE[2], (i - 1) % IMAGE_SIZE[2]>>

\* a pass with several chunks of more than one pixel has returned
C2_Witness ==
    /\ pc = "returned"
    /\ num_cpus > 1
    /\ Len(tasks) > 1
    /\ \E k \in 1..Len(tasks) : tasks[k].len > 1 /\ tasks[k].offset > 0

\* C3 as stated: all chunks have size floor(P/N) and there are exactly N tasks.
C3_Original ==
    pc \in {"join", "returned"} =>
        /\ Len(tasks) = num_cpus
        /\ \A k \in 1..Len(tasks) : tasks[k].len = pixel_count \div num_cpus

\* C3 (amended): the chunks are contiguous and cover the buffer, every chunk
\* but the last has size floor(P/N), the last has between 1 and floor(P/N)
\* elements, and one task per chunk is dispatched: ceil(P / floor(P/N))
\* tasks, which is N exactly when N divides P and more than N otherwise.
C3_ChunksWithRemainder ==
    pc \in {"join", "returned"} =>
        LET cs == pixel_count \div num_cpus
            n  == Len(tasks)
        IN /\ n = (pixel_count + cs - 1) \div cs
           /\ n >= num_cpus
           /\ (n = num_cpus) <=> (pixel_count % num_cpus = 0)
           /\ tasks[1].start = 0
           /\ \A k \in 1..(n - 1) :
                  /\ tasks[k].len = cs
                  /\ tasks[k + 1].start = tasks[k].start + tasks[k].len
           /\ tasks[n].len \in 1..cs
           /\ tasks[n].start + tasks[n].len = pixel_count

\* all chunks are dispatched and there are more of them than pool threads
C3_Witness ==
    /\ pc = "join"
    /\ Len(tasks) > num_cpus
    /\ tasks[Len(tasks)].len < tasks[1].len

\* C4: when cast_rays has returned every dispatched task has finished and
\* every pixel slot has been written exactly once.
C4_ReturnsAfterAllWritten ==
    pc = "returned" =>
        /\ \A k \in 1..Len(tasks) :
               tasks[k].st = "done" /\ tasks[k].pos = tasks[k].len
        /\ Len(output) = pixel_count
        /\ \A idx \in 1..pixel_count :
               Len(writes[idx]) = 1 /\ output[idx] # Placeholder

\* a pass that queued more tasks than the pool has threads has returned
C4_Witness ==
    /\ pc = "returned"
    /\ Len(tasks) > num_cpus
    /\ \A idx \in 1..pixel_count : Len(writes[idx]) = 1

\* -------------------------------------------------------------------------
\* f64 with IEEE 754 rounding (round to nearest, ties to even) on normal
\* numbers.  A natural number of any size is a sequence of limbs, least
\* significant first, in base 2^14, without leading zero limbs.

BASE == 2 ^ 14

\* the bits of an f64 significand
PRECISION == 53

RECURSIVE ToBig(_)
ToBig(n) == IF n = 0 THEN <<>> ELSE <<n % BASE>> \o ToBig(n \div BASE)

RECURSIVE BTrim(_)
BTrim(a) ==
    IF a = <<>> THEN a
    ELSE IF a[Len(a)] = 0 THEN BTrim(SubSeq(a, 1, Len(a) - 1)) ELSE a

Limb(a, i) == IF i <= Len(a) THEN a[i] ELSE 0

RECURSIVE BAddC(_, _, _)
BAddC(a, b, carry) ==
    IF a = <<>> /\ b = <<>>
    THEN IF carry = 0 THEN <<>> ELSE <<carry>>
    ELSE LET s == Limb(a, 1) + Limb(b, 1) + carry
         IN <<s % BASE>> \o BAddC(IF a = <<>> THEN a ELSE Tail(a),
                                  IF b = <<>> THEN b ELSE Tail(b), s \div BASE)

BAdd(a, b) == BAddC(a, b, 0)

\* a - b for a >= b
RECURSIVE BSubC(_, _, _)
BSubC(a, b, borrow) ==
    IF a = <<>> THEN <<>>
    ELSE LET s == a[1] - Limb(b, 1) - borrow
         IN <<(s + BASE) % BASE>> \o
                BSubC(Tail(a), IF b = <<>> THEN b ELSE Tail(b), IF s < 0 THEN 1 ELSE 0)

BSub(a, b) == BTrim(BSubC(a, b, 0))

\* -1, 0 or 1 as a < b, a = b, a > b
RECURSIVE BCmpFrom(_, _, _)
BCmpFrom(a, b, i) ==
    IF i = 0 THEN 0
    ELSE IF a[i] < b[i] THEN -1
    ELSE IF a[i] > b[i] THEN 1
    ELSE BCmpFrom(a, b, i - 1)

BCmp(a, b) ==
    IF Len(a) < Len(b) THEN -1
    ELSE IF Len(a) > Len(b) THEN 1
    ELSE BCmpFrom(a, b, Len(a))

\* a * d for a limb d
RECURSIVE BMulLimbC(_, _, _)
BMulLimbC(a, d, carry) ==
    IF a = <<>> THEN (IF carry = 0 THEN <<>> ELSE <<carry>>)
    ELSE LET s == a[1] * d + carry
         IN <<s % BASE>> \o BMulLimbC(Tail(a), d, s \div BASE)

BMulLimb(a, d) == IF d = 0 THEN <<>> ELSE BMulLimbC(a, d, 0)

RECURSIVE BMul(_, _)
BMul(a, b) ==
    IF a = <<>> \/ b = <<>> THEN <<>>
    ELSE BAdd(BMulLimb(b, a[1]),
              LET rest == BMul(Tail(a), b)
              IN IF rest = <<>> THEN rest ELSE <<0>> \o rest)

RECURSIVE SmallBitLen(_)
SmallBitLen(n) == IF n = 0 THEN 0 ELSE 1 + SmallBitLen(n \div 2)

BitLen(a) == IF a = <<>> THEN 0 ELSE 14 * (Len(a) - 1) + SmallBitLen(a[Len(a)])

Zeros(q) == [i \in 1..q |-> 0]

\* a * 2^k
BShl(a, k) ==
    IF a = <<>> THEN a ELSE Zeros(k \div 14) \o BMulLimb(a, 2 ^ (k % 14))

\* floor(a / 2^k)
BShr(a, k) ==
    LET q == k \div 14
        r == k % 14
        n == Len(a) - q
    IN IF n <= 0 THEN <<>>
       ELSE BTrim([i \in 1..n |->
                      (a[q + i] \div (2 ^ r))
                          + (Limb(a, q + i + 1) % (2 ^ r)) * (2 ^ (14 - r))])

\* bit i of a, bit 0 the least significant
Bit(a, i) == (Limb(a, (i \div 14) + 1) \div (2 ^ (i % 14))) % 2

\* a mod 2^k # 0
LowBitsSet(a, k) ==
    \/ \E i \in 1..(k \div 14) : Limb(a, i) # 0
    \/ Limb(a, (k \div 14) + 1) % (2 ^ (k % 14)) # 0

\* an f64: sgn * man * 2^exp, man of exactly PRECISION bits, or zero
FZero == [sgn |-> 0, man |-> <<>>, exp |-> 0]

\* the f64 nearest to sgn * n * 2^e, ties to even
MakeFloat(sgn, n, e) ==
    IF n = <<>> \/ sgn = 0 THEN FZero
    ELSE LET len == BitLen(n)
         IN IF len <= PRECISION
            THEN [sgn |-> sgn, man |-> BShl(n, PRECISION - len),
                  exp |-> e - (PRECISION - len)]
            ELSE LET k  == len - PRECISION
                     q  == BShr(n, k)
                     up == Bit(n, k - 1) = 1 /\ (LowBitsSet(n, k - 1) \/ Bit(q, 0) = 1)
                     r  == IF up THEN BAdd(q, <<1>>) ELSE q
                 IN IF BitLen(r) > PRECISION
                    THEN [sgn |-> sgn, man |-> BShr(r, 1), exp |-> e + k + 1]
                    ELSE [sgn |-> sgn, man |-> r, exp |-> e + k]

\* an integer as f64
FromInt(i) ==
    MakeFloat(IF i < 0 THEN -1 ELSE IF i = 0 THEN 0 ELSE 1,
              ToBig(IF i < 0 THEN -i ELSE i), 0)

FNeg(a) == [a EXCEPT !.sgn = -a.sgn]

FAbs(a) == [a EXCEPT !.sgn = IF a.sgn = 0 THEN 0 ELSE 1]

\* compares |a| and |b|: -1, 0 or 1
FMagCmp(a, b) ==
    IF a.sgn = 0 THEN (IF b.sgn = 0 THEN 0 ELSE -1)
    ELSE IF b.sgn = 0 THEN 1
    ELSE IF a.exp < b.exp THEN -1
    ELSE IF a.exp > b.exp THEN 1
    ELSE BCmp(a.man, b.man)

\* -1, 0 or 1 as a < b, a = b, a > b
FCmp(a, b) ==
    IF a.sgn # b.sgn THEN (IF a.sgn < b.sgn THEN -1 ELSE 1)
    ELSE IF a.sgn = 0 THEN 0
    ELSE a.sgn * FMagCmp(a, b)

FMul(a, b) == MakeFloat(a.sgn * b.sgn, BMul(a.man, b.man), a.exp + b.exp)

FAdd(a, b) ==
    IF a.sgn = 0 THEN b
    ELSE IF b.sgn = 0 THEN a
    ELSE LET hi == IF a.exp >= b.exp THEN a ELSE b
             lo == IF a.exp >= b.exp THEN b ELSE a
             diff == hi.exp - lo.exp
         IN IF diff > PRECISION + 2 THEN hi
            ELSE LET big == BShl(hi.man, diff)
                     c   == BCmp(big, lo.man)
                     sum == IF hi.sgn = lo.sgn THEN [sgn |-> hi.sgn, n |-> BAdd(big, lo.man)]
                            ELSE IF c >= 0 THEN [sgn |-> hi.sgn, n |-> BSub(big, lo.man)]
                            ELSE [sgn |-> lo.sgn, n |-> BSub(lo.man, big)]
                 IN MakeFloat(sum.sgn, sum.n, lo.exp)

\* the quotient bits of rem / den, one bit per step (restoring division), and
\* a last bit that is set when the division left a remainder; a remainder of
\* zero ends the division early, the bits left being zero
RECURSIVE DivBits(_, _, _)
DivBits(st, den, steps) ==
    IF st.rem = <<>> \/ steps = 0
    THEN BAdd(BShl(st.quo, steps + 1), IF st.rem = <<>> THEN <<>> ELSE <<1>>)
    ELSE LET r2 == BShl(st.rem, 1)
             ge == BCmp(r2, den) >= 0
         IN DivBits([rem |-> IF ge THEN BSub(r2, den) ELSE r2,
                     quo |-> BAdd(BShl(st.quo, 1), IF ge THEN <<1>> ELSE <<>>)],
                    den, steps - 1)

\* a / b for b # 0: PRECISION + 3 quotient bits and a sticky bit, then rounded
FDiv(a, b) ==
    IF a.sgn = 0 THEN FZero
    ELSE LET ge == BCmp(a.man, b.man) >= 0
             n  == DivBits([rem |-> IF ge THEN BSub(a.man, b.man) ELSE a.man,
                            quo |-> IF ge THEN <<1>> ELSE <<>>],
                           b.man, PRECISION + 2)
         IN MakeFloat(a.sgn * b.sgn, n, a.exp - b.exp - (PRECISION + 2) - 1)

\* -------------------------------------------------------------------------
\* f64 as exact rationals

RECURSIVE GCD(_, _)
GCD(a, b) == IF b = 0 THEN a ELSE GCD(b, a % b)

\* the rational num/den (den # 0) in lowest terms with a positive denominator
Rat(num, den) ==
    LET g == GCD(Abs(num), Abs(den))
        s == IF den < 0 THEN -1 ELSE 1
    IN [n |-> s * (num \div g), d |-> s * (den \div g)]

R(i) == [n |-> i, d |-> 1]

RNeg(a) == [n |-> -a.n, d |-> a.d]

RAdd(a, b) ==
    LET g == GCD(a.d, b.d)
    IN Rat(a.n * (b.d \div g) + b.n * (a.d \div g), (a.d \div g) * b.d)

RSub(a, b) == RAdd(a, RNeg(b))

RMul(a, b) ==
    LET g1 == GCD(Abs(a.n), b.d)
        g2 == GCD(Abs(b.n), a.d)
    IN [n |-> (a.n \div g1) * (b.n \div g2), d |-> (a.d \div g2) * (b.d \div g1)]

\* a / b for b # 0
RDiv(a, b) == RMul(a, Rat(b.d, b.n))

RAbs(a) == [n |-> Abs(a.n), d |-> a.d]

RLt(a, b) == a.n * b.d < b.n * a.d

RLe(a, b) == a.n * b.d <= b.n * a.d

\* floor(a) for a >= 0
RFloor(a) == a.n \div a.d

\* Option<T>
None == [some |-> FALSE]

Some(v) == [some |-> TRUE, val |-> v]

\* -------------------------------------------------------------------------
\* main.rs 27-31

\* const FLOAT_EPS: f64 = 1e-8
FLOAT_EPS == [n |-> 1, d |-> 100000000]

\* f.abs() <= FLOAT_EPS, that is |n| * 10^8 <= d
is_zero(f) == Abs(f.n) <= (f.d * FLOAT_EPS.n) \div FLOAT_EPS.d

\* f >= -FLOAT_EPS: f is not negative, or it is negative and within FLOAT_EPS of 0
geq_neg_eps(f) == f.n >= 0 \/ is_zero(f)

\* -------------------------------------------------------------------------
\* vector.rs

\* point!(x, y, z) on integers
point(x, y, z) == [x |-> R(x), y |-> R(y), z |-> R(z)]

\* vector!()
zero_vector == point(0, 0, 0)

\* vector!(a, b): the vector from a to b
vector(a, b) == [x |-> RSub(b.x, a.x), y |-> RSub(b.y, a.y), z |-> RSub(b.z, a.z)]

\* Vector::dot
dot(v, v2) == RAdd(RAdd(RMul(v.x, v2.x), RMul(v.y, v2.y)), RMul(v.z, v2.z))

\* Vector::cross
cross(v, v2) ==
    [x |-> RSub(RMul(v.y, v2.z), RMul(v.z, v2.y)),
     y |-> RNeg(RSub(RMul(v.x, v2.z), RMul(v.z, v2.x))),
     z |-> RSub(RMul(v.x, v2.y), RMul(v.y, v2.x))]

\* Vector::is_zero
Vector_is_zero_xy(v) == is_zero(v.x) /\ is_zero(v.y)

Vector_is_zero(v) == is_zero(v.x) /\ is_zero(v.y) /\ is_zero(v.z)

\* Vector::is_collinear
is_collinear(v, v2) == Vector_is_zero(cross(v, v2))

\* Vector::is_codirectional
is_codirectional(v, v2) ==
    /\ is_collinear(v, v2)
    /\ geq_neg_eps(RMul(v.x, v2.x))
    /\ geq_neg_eps(RMul(v.y, v2.y))
    /\ geq_neg_eps(RMul(v.z, v2.z))

\* impl Add<Point> for Point
Add(a, b) == [x |-> RAdd(a.x, b.x), y |-> RAdd(a.y, b.y), z |-> RAdd(a.z, b.z)]

\* impl Mul<Vector> for f64
Mul(t, v) == [x |-> RMul(t, v.x), y |-> RMul(t, v.y), z |-> RMul(t, v.z)]

\* -------------------------------------------------------------------------
\* line.rs

\* Line::at
at(line, t) == Add(line.origin, Mul(t, line.direction))

\* -------------------------------------------------------------------------
\* surface.rs

\* Plane::new
Plane_new(p, v1, v2) ==
    LET v == cross(v1, v2)
    IN IF Vector_is_zero(v)
       THEN [ok |-> FALSE, err |-> "CollinearVectors"]
       ELSE [ok |-> TRUE,
             val |-> [a |-> v.x, b |-> v.y, c |-> v.z,
                      d |-> RNeg(RAdd(RAdd(RMul(v.x, p.x), RMul(v.y, p.y)),
                                      RMul(v.z, p.z)))]]

\* Plane::subs
subs(plane, pt) ==
    RAdd(RAdd(RAdd(RMul(plane.a, pt.x), RMul(plane.b, pt.y)), RMul(plane.c, pt.z)),
         plane.d)

\* Plane::contains
Plane_contains(plane, pt) == is_zero(subs(plane, pt))

\* Plane::normal
normal(plane) == [x |-> plane.a, y |-> plane.b, z |-> plane.c]

\* Plane::intersect
Plane_intersect(plane, line) ==
    LET direction == line.direction
        origin == line.origin
        sum_t == RAdd(RAdd(RMul(plane.a, direction.x), RMul(plane.b, direction.y)),
                      RMul(plane.c, direction.z))
        sum_rhs == RSub(RSub(RSub(RNeg(plane.d), RMul(plane.a, origin.x)),
                             RMul(plane.b, origin.y)),
                        RMul(plane.c, origin.z))
    IN IF is_zero(sum_t) THEN None ELSE Some(RDiv(sum_rhs, sum_t))

\* Triangle::new
Triangle_new(p1, p2, p3) ==
    LET plane == Plane_new(p1, vector(p1, p2), vector(p1, p3))
    IN IF ~plane.ok
       THEN [ok |-> FALSE, err |-> plane.err]
       ELSE [ok |-> TRUE, val |-> [vertices |-> <<p1, p2, p3>>, plane |-> plane.val]]

\* the closure of the .map in is_inside: for the vertex at index pos (from 0),
\* the cross product of vertex->pt and vertex->next vertex
edge_cross(tri, pos, pt) ==
    LET vertex == tri.vertices[pos + 1]
        next_vertex == tri.vertices[((pos + 1) % 3) + 1]
    IN cross(vector(vertex, pt), vector(vertex, next_vertex))

\* the closure of the .fold in is_inside
fold_step(last_opt, v) ==
    IF last_opt.some
    THEN IF is_codirectional(v, last_opt.val)
         THEN Some(Add(v, last_opt.val))
         ELSE None
    ELSE None

\* .fold(Some(vector!()), ...) over the vectors vs, left to right
RECURSIVE fold(_, _)
fold(acc, vs) == IF vs = <<>> THEN acc ELSE fold(fold_step(acc, Head(vs)), Tail(vs))

\* Triangle::is_inside
is_inside(tri, pt) ==
    fold(Some(zero_vector), [i \in 1..3 |-> edge_cross(tri, i - 1, pt)]).some

\* Triangle::contains
Triangle_contains(tri, pt) == Plane_contains(tri.plane, pt) /\ is_inside(tri, pt)

\* Triangle::intersect
Triangle_intersect(tri, line) ==
    LET hit == Plane_intersect(tri.plane, line)
    IN IF ~hit.some THEN None
       ELSE IF is_inside(tri, at(line, hit.val)) THEN Some(hit.val) ELSE None

\* -------------------------------------------------------------------------
\* SpecGeom: Plane::new, Triangle::new and Triangle::contains

Lattice == {point(x, y, z) : x \in 0..MaxX, y \in {0, 1}, z \in {0, 1}}

\* Plane::new is also tried on spanning vectors of length about 1e-4, whose
\* cross product has components of the size of FLOAT_EPS
TinyScale == 128 * 128

\* v / k
Shrink(v, k) == Mul(Rat(1, k), v)

\* p1 + (m/3)(p2 - p1) + (n/3)(p3 - p1): a point of the plane through p1, p2, p3.
\* (0,0), (3,0), (0,3) are the vertices and (1,1) is the centroid.
Bary(p1, p2, p3, m, n) ==
    Add(p1, Add(Mul(Rat(m, 3), vector(p1, p2)), Mul(Rat(n, 3), vector(p1, p3))))

\* the point asked about: a vertex itself, or a point of the plane computed
\* from the vertices
Probe(p1, p2, p3, m, n) ==
    IF <<m, n>> = <<0, 0>> THEN p1
    ELSE IF <<m, n>> = <<3, 0>> THEN p2
    ELSE IF <<m, n>> = <<0, 3>> THEN p3
    ELSE Bary(p1, p2, p3, m, n)

Probes ==
    {<<0, 0>>, <<3, 0>>, <<0, 3>>, <<1, 1>>}
      \cup {<<-3 * k, -3 * k>> : k \in 1..BaryMax}
      \cup {<<3 + 3 * k, -3 * k>> : k \in 1..BaryMax}
      \cup {<<-3 * k, 3 + 3 * k>> : k \in 1..BaryMax}
      \cup {<<3 * k, 3 * k>> : k \in 1..BaryMax}

InitGeom ==
    /\ pc = "input"
    /\ inp \in [p1 : Lattice, p2 : Lattice, p3 : Lattice]
    /\ res = <<>>
    /\ num_cpus = 0
    /\ chunks_size = 0
    /\ offset = 0
    /\ tasks = <<>>
    /\ buff = <<>>
    /\ writes = <<>>
    /\ output = <<>>

\* Plane::new(p, v1, v2) with p = p1 and v1, v2 = p2 / scale, p3 / scale
PlaneNew ==
    /\ pc = "input"
    /\ \E scale \in {1, TinyScale} :
           LET v1 == Shrink(inp.p2, scale)
               v2 == Shrink(inp.p3, scale)
           IN res' = [p |-> inp.p1, v1 |-> v1, v2 |-> v2, scale |-> scale,
                      plane |-> Plane_new(inp.p1, v1, v2)]
    /\ pc' = "Plane::new"
    /\ UNCHANGED <<inp, rays_vars>>

\* Triangle::new(p1, p2, p3)
TriangleNew ==
    /\ pc = "input"
    /\ res' = [triangle |-> Triangle_new(inp.p1, inp.p2, inp.p3)]
    /\ pc' = "Triangle::new"
    /\ UNCHANGED <<inp, rays_vars>>

\* Triangle::contains(pt) on a constructed triangle, pt on the triangle's plane
Contains ==
    /\ pc = "Triangle::new"
    /\ res.triangle.ok
    /\ \E mn \in Probes :
           LET pt == Probe(inp.p1, inp.p2, inp.p3, mn[1], mn[2])
           IN res' = [triangle |-> res.triangle, m |-> mn[1], n |-> mn[2], pt |-> pt,
                      contains |-> Triangle_contains(res.triangle.val, pt)]
    /\ pc' = "contains"
    /\ UNCHANGED <<inp, rays_vars>>

NextGeom ==
    \/ PlaneNew
    \/ TriangleNew
    \/ Contains

SpecGeom == InitGeom /\ [][NextGeom]_vars

\* -------------------------------------------------------------------------
\* vector.rs and surface.rs in f64 arithmetic: the operations that
\* Triangle::new and Triangle::contains are made of, every +, - and * rounded

\* the f64 nearest to a rational: a literal, or an integer `as f64`
f64_of(q) == FDiv(FromInt(q.n), FromInt(q.d))

FSub(a, b) == FAdd(a, FNeg(b))

\* const FLOAT_EPS: f64 = 1e-8
f64_FLOAT_EPS == f64_of(FLOAT_EPS)

\* is_zero: f.abs() <= FLOAT_EPS
f64_is_zero(f) == FMagCmp(f, f64_FLOAT_EPS) <= 0

\* f >= -FLOAT_EPS
f64_geq_neg_eps(f) == f.sgn >= 0 \/ f64_is_zero(f)

\* vector!()
f64_zero_vector == [x |-> FZero, y |-> FZero, z |-> FZero]

\* vector!(a, b)
f64_vector(a, b) == [x |-> FSub(b.x, a.x), y |-> FSub(b.y, a.y), z |-> FSub(b.z, a.z)]

\* Vector::cross
f64_cross(v, v2) ==
    [x |-> FSub(FMul(v.y, v2.z), FMul(v.z, v2.y)),
     y |-> FNeg(FSub(FMul(v.x, v2.z), FMul(v.z, v2.x))),
     z |-> FSub(FMul(v.x, v2.y), FMul(v.y, v2.x))]

\* Vector::is_zero
f64_Vector_is_zero(v) == f64_is_zero(v.x) /\ f64_is_zero(v.y) /\ f64_is_zero(v.z)

\* Vector::is_collinear
f64_is_collinear(v, v2) == f64_Vector_is_zero(f64_cross(v, v2))

\* Vector::is_codirectional
f64_is_codirectional(v, v2) ==
    /\ f64_is_collinear(v, v2)
    /\ f64_geq_neg_eps(FMul(v.x, v2.x))
    /\ f64_geq_neg_eps(FMul(v.y, v2.y))
    /\ f64_geq_neg_eps(FMul(v.z, v2.z))

\* impl Add<Point> for Point
f64_Add(a, b) == [x |-> FAdd(a.x, b.x), y |-> FAdd(a.y, b.y), z |-> FAdd(a.z, b.z)]

\* impl Mul<Vector> for f64
f64_Mul(t, v) == [x |-> FMul(t, v.x), y |-> FMul(t, v.y), z |-> FMul(t, v.z)]

\* Plane::new
f64_Plane_new(p, v1, v2) ==
    LET v == f64_cross(v1, v2)
    IN IF f64_Vector_is_zero(v)
       THEN [ok |-> FALSE, err |-> "CollinearVectors"]
       ELSE [ok |-> TRUE,
             val |-> [a |-> v.x, b |-> v.y, c |-> v.z,
                      d |-> FNeg(FAdd(FAdd(FMul(v.x, p.x), FMul(v.y, p.y)),
                                      FMul(v.z, p.z)))]]

\* Plane::subs
f64_subs(plane, pt) ==
    FAdd(FAdd(FAdd(FMul(plane.a, pt.x), FMul(plane.b, pt.y)), FMul(plane.c, pt.z)),
         plane.d)

\* Plane::contains
f64_Plane_contains(plane, pt) == f64_is_zero(f64_subs(plane, pt))

\* Triangle::new
f64_Triangle_new(p1, p2, p3) ==
    LET plane == f64_Plane_new(p1, f64_vector(p1, p2), f64_vector(p1, p3))
    IN IF ~plane.ok
       THEN [ok |-> FALSE, err |-> plane.err]
       ELSE [ok |-> TRUE, val |-> [vertices |-> <<p1, p2, p3>>, plane |-> plane.val]]

\* the closure of the .map in is_inside
f64_edge_cross(tri, pos, pt) ==
    LET vertex == tri.vertices[pos + 1]
        next_vertex == tri.vertices[((pos + 1) % 3) + 1]
    IN f64_cross(f64_vector(vertex, pt), f64_vector(vertex, next_vertex))

\* the closure of the .fold in is_inside
f64_fold_step(last_opt, v) ==
    IF last_opt.some
    THEN IF f64_is_codirectional(v, last_opt.val)
         THEN Some(f64_Add(v, last_opt.val))
         ELSE None
    ELSE None

RECURSIVE f64_fold(_, _)
f64_fold(acc, vs) ==
    IF vs = <<>> THEN acc ELSE f64_fold(f64_fold_step(acc, Head(vs)), Tail(vs))

\* Triangle::is_inside
f64_is_inside(tri, pt) ==
    f64_fold(Some(f64_zero_vector), [i \in 1..3 |-> f64_edge_cross(tri, i - 1, pt)]).some

\* Triangle::contains
f64_Triangle_contains(tri, pt) ==
    f64_Plane_contains(tri.plane, pt) /\ f64_is_inside(tri, pt)

\* -------------------------------------------------------------------------
\* SpecMesh: Triangle::new and Triangle::contains in f64 arithmetic, on the
\* vertices of a mesh whose coordinates have one decimal

\* point!(x, y, z) for x, y, z given in tenths
mesh_point(x10, y10, z10) ==
    [x |-> f64_of(Rat(x10, 10)), y |-> f64_of(Rat(y10, 10)), z |-> f64_of(Rat(z10, 10))]

MeshPoints ==
    {mesh_point(4886, -4973, -4271), mesh_point(987, 4802, -500),
     mesh_point(-2128, 4640, -1624), mesh_point(1, 2, 3)}

\* the point asked about: a vertex itself, or p1 + (m/3)(p2 - p1) + (n/3)(p3 - p1)
\* computed in f64
f64_Probe(p1, p2, p3, m, n) ==
    IF <<m, n>> = <<0, 0>> THEN p1
    ELSE IF <<m, n>> = <<3, 0>> THEN p2
    ELSE IF <<m, n>> = <<0, 3>> THEN p3
    ELSE f64_Add(p1, f64_Add(f64_Mul(f64_of(Rat(m, 3)), f64_vector(p1, p2)),
                             f64_Mul(f64_of(Rat(n, 3)), f64_vector(p1, p3))))

InitMesh ==
    /\ pc = "input"
    /\ inp \in [p1 : MeshPoints, p2 : MeshPoints, p3 : MeshPoints]
    /\ res = <<>>
    /\ num_cpus = 0
    /\ chunks_size = 0
    /\ offset = 0
    /\ tasks = <<>>
    /\ buff = <<>>
    /\ writes = <<>>
    /\ output = <<>>

\* Triangle::new(p1, p2, p3)
MeshTriangleNew ==
    /\ pc = "input"
    /\ res' = [triangle |-> f64_Triangle_new(inp.p1, inp.p2, inp.p3)]
    /\ pc' = "Triangle::new"
    /\ UNCHANGED <<inp, rays_vars>>

\* Triangle::contains(pt) on a constructed triangle
MeshContains ==
    /\ pc = "Triangle::new"
    /\ res.triangle.ok
    /\ \E mn \in Probes :
           LET pt == f64_Probe(inp.p1, inp.p2, inp.p3, mn[1], mn[2])
           IN res' = [triangle |-> res.triangle, m |-> mn[1], n |-> mn[2], pt |-> pt,
                      contains |-> f64_Triangle_contains(res.triangle.val, pt)]
    /\ pc' = "contains"
    /\ UNCHANGED <<inp, rays_vars>>

NextMesh ==
    \/ MeshTriangleNew
    \/ MeshContains

SpecMesh == InitMesh /\ [][NextMesh]_vars

\* the integer numerator of a lattice coordinate
Num(r) == r.n

\* the three components of the cross product of two integer vectors
CrossInt(u, w) ==
    <<Num(u.y) * Num(w.z) - Num(u.z) * Num(w.y),
      Num(u.z) * Num(w.x) - Num(u.x) * Num(w.z),
      Num(u.x) * Num(w.y) - Num(u.y) * Num(w.x)>>

\* C6: Plane::new(p, v1, v2) fails, with CollinearVectors, if and only if
\* every component of cross(v1, v2) is within FLOAT_EPS of 0, and otherwise
\* returns a plane whose equation p satisfies; Triangle::new(p1, p2, p3) fails
\* exactly when Plane::new(p1, p2 - p1, p3 - p1) does, in particular for three
\* collinear points, and then constructs no triangle.
C6_CollinearError ==
    /\ pc = "Plane::new" =>
           \* v1 = p2 / scale and v2 = p3 / scale, so cross(v1, v2) is
           \* CrossInt(p2, p3) / scale^2
           LET c == CrossInt(inp.p2, inp.p3)
               within_eps ==
                   \A i \in 1..3 :
                       Abs(c[i]) <= (res.scale * res.scale) \div 100000000
           IN /\ ~res.plane.ok <=> within_eps
              /\ ~res.plane.ok => res.plane.err = "CollinearVectors"
              /\ res.plane.ok =>
                     LET pl == res.plane.val
                     IN RAdd(RAdd(RAdd(RMul(pl.a, res.p.x), RMul(pl.b, res.p.y)),
                                  RMul(pl.c, res.p.z)), pl.d) = R(0)
    /\ pc = "Triangle::new" =>
           LET c == CrossInt(vector(inp.p1, inp.p2), vector(inp.p1, inp.p3))
               collinear_points == \A i \in 1..3 : c[i] = 0
               plane == Plane_new(inp.p1, vector(inp.p1, inp.p2), vector(inp.p1, inp.p3))
           IN /\ res.triangle.ok = plane.ok
              /\ ~res.triangle.ok =>
                     /\ res.triangle.err = plane.err
                     /\ "val" \notin DOMAIN res.triangle
              /\ collinear_points => ~res.triangle.ok
              /\ res.triangle.ok => res.triangle.val.vertices = <<inp.p1, inp.p2, inp.p3>>

\* Plane::new has rejected two spanning vectors that are not parallel but so
\* short that their cross product is within FLOAT_EPS of 0, and Triangle::new
\* has rejected three distinct collinear points
C6_Witness ==
    \/ /\ pc = "Plane::new"
       /\ ~res.plane.ok
       /\ res.scale = TinyScale
       /\ CrossInt(inp.p2, inp.p3) # <<0, 0, 0>>
    \/ /\ pc = "Triangle::new"
       /\ ~res.triangle.ok
       /\ inp.p1 # inp.p2 /\ inp.p2 # inp.p3 /\ inp.p1 # inp.p3

\* a < b, for two rationals or two f64s
Less(a, b) == IF "man" \in DOMAIN a THEN FCmp(a, b) < 0 ELSE RLt(a, b)

\* the bounding box of the vertices, and a point outside it
OutsideBoundingBox(tri, pt) ==
    LET vs == tri.vertices
    IN \/ \A i \in 1..3 : Less(pt.x, vs[i].x)
       \/ \A i \in 1..3 : Less(vs[i].x, pt.x)
       \/ \A i \in 1..3 : Less(pt.y, vs[i].y)
       \/ \A i \in 1..3 : Less(vs[i].y, pt.y)
       \/ \A i \in 1..3 : Less(pt.z, vs[i].z)
       \/ \A i \in 1..3 : Less(vs[i].z, pt.z)

\* C7: a constructed triangle contains each of its vertices and its centroid,
\* and does not contain a point of its plane outside its bounding box.
C7_Contains ==
    pc = "contains" =>
        LET tri == res.triangle.val
        IN /\ res.pt \in {tri.vertices[1], tri.vertices[2], tri.vertices[3]}
                  => res.contains
           /\ (res.m = 1 /\ res.n = 1) => res.contains
           /\ OutsideBoundingBox(tri, res.pt) => ~res.contains

\* contains has answered false for one of the triangle's own vertices
C7_VertexRejected ==
    /\ pc = "contains"
    /\ res.pt \in {res.triangle.val.vertices[i] : i \in 1..3}
    /\ ~res.contains

\* -------------------------------------------------------------------------
\* main.rs 40-99: colours, environment, compute_lights, cast_ray

VOID_COLOR == <<30, 30, 30>>

\* ambient_light: 0.4 and diffuse_light: 0.2 (main)
ambient_light == Rat(4, 10)

diffuse_light == Rat(2, 10)

\* the largest k with k * k <= x
ISqrt(x) == CHOOSE k \in 0..x : k * k <= x /\ x < (k + 1) * (k + 1)

\* the squared length: Vector::len without its sqrt
len_squared(v) == dot(v, v)

\* v.cos(v2).abs() as f32, for non-zero v and v2: |dot| / (len * len2), which is
\* the square root of dot^2 / (len^2 * len2^2); rounded down to 1 / CosRes
cos_abs_unnormalized(v, v2) == RAbs(dot(v, v2))

cos_abs(v, v2) ==
    LET q == RDiv(RMul(dot(v, v2), dot(v, v2)), RMul(len_squared(v), len_squared(v2)))
    IN Rat(ISqrt(RFloor(RMul(R(CosRes * CosRes), q))), CosRes)

\* the surfaces compute_lights tests against the shadow ray:
\* .filter(|sf| !sf.triangle.contains(pt))
unfiltered(surfaces, pt) == surfaces

shadow_candidates(surfaces, pt) ==
    LET keep(sf) == ~Triangle_contains(sf.triangle, pt)
    IN SelectSeq(surfaces, keep)

\* (1.0 - env.diffuse_light) + cos * env.diffuse_light
ambient_plus_diffuse(env, cos) == RAdd(env.ambient_light, RMul(cos, env.diffuse_light))

lit_brightness(env, cos) == RAdd(RSub(R(1), env.diffuse_light), RMul(cos, env.diffuse_light))

\* compute_lights
compute_lights(env, surface, pt) ==
    LET sun_ray == [direction |-> vector(pt, env.sun), origin |-> pt]
        tested  == shadow_candidates(env.surfaces, pt)
        covered ==
            \E i \in 1..Len(tested) :
                LET opt == Triangle_intersect(tested[i].triangle, sun_ray)
                IN opt.some /\ geq_neg_eps(opt.val)
        different_halves ==
            RLe(RMul(subs(surface.plane, env.origin), subs(surface.plane, env.sun)), R(0))
    IN IF covered \/ different_halves
       THEN env.ambient_light
       ELSE lit_brightness(env, cos_abs(sun_ray.direction, normal(surface.plane)))

\* Iterator::min_by on the (t, surface) pairs: the running minimum is replaced
\* only by a strictly smaller element, so the first of several minima is kept
RECURSIVE min_by_last(_, _)
min_by_last(best, rest) ==
    IF rest = <<>> THEN best
    ELSE min_by_last(IF RLt(Head(rest).t, best.t) \/ Head(rest).t = best.t
                     THEN Head(rest) ELSE best, Tail(rest))

RECURSIVE min_by(_, _)
min_by(best, rest) ==
    IF rest = <<>> THEN best
    ELSE min_by(IF RLt(Head(rest).t, best.t) THEN Head(rest) ELSE best, Tail(rest))

\* (*c as f32 * brightness) as u8, for each channel
shade(color, brightness) ==
    [i \in 1..3 |-> Min(255, RFloor(RMul(R(color[i]), brightness)))]

\* the forward intersections of cast_ray, in scene order
intersections(env, ray) ==
    LET all == [i \in 1..Len(env.surfaces) |->
                    LET opt == Triangle_intersect(env.surfaces[i].triangle, ray)
                    IN [some |-> opt.some,
                        t    |-> IF opt.some THEN opt.val ELSE R(0),
                        sf   |-> i]]
        forward(is) == is.some /\ geq_neg_eps(is.t)
    IN SelectSeq(all, forward)

\* cast_ray
cast_ray(env, ray) ==
    LET hits == intersections(env, ray)
    IN IF hits # <<>>
       THEN LET nearest == min_by(Head(hits), Tail(hits))
                surface == env.surfaces[nearest.sf]
                brightness == compute_lights(env, surface.triangle, at(ray, nearest.t))
            IN shade(surface.color, brightness)
       ELSE VOID_COLOR

\* -------------------------------------------------------------------------
\* SpecCast: cast_ray and compute_lights on small scenes

\* constructed triangles: two halves of a ground quad at y = 0 (they share an
\* edge), a triangle above the first half at y = 2, a wall in the plane x = 1
\* and a slanted triangle
Shapes ==
    {Triangle_new(point(0, 0, 0), point(2, 0, 0), point(0, 0, 2)).val,
     Triangle_new(point(2, 0, 2), point(2, 0, 0), point(0, 0, 2)).val,
     Triangle_new(point(0, 2, 0), point(2, 2, 0), point(0, 2, 2)).val,
     Triangle_new(point(1, 0, 0), point(1, 2, 0), point(1, 0, 2)).val,
     Triangle_new(point(0, 0, 0), point(2, 1, 0), point(0, 1, 2)).val}

\* the colour of the i-th surface of a scene (main.rs 153, 188; tmp.rs 45)
Palette == <<<<255, 100, 100>>, <<200, 200, 200>>, <<0, 255, 0>>, <<0, 0, 255>>>>

Scenes ==
    UNION {[1..n -> Shapes] : n \in 0..MaxSurfaces}

\* (camera origin, sun) pairs: camera and sun above the ground, and the
\* camera below it
Views ==
    {<<point(0, 1, 0), point(-2, 3, 0)>>,
     <<point(1, 3, 1), point(0, 4, 0)>>,
     <<point(1, 3, 1), point(2, 4, 2)>>,
     <<point(1, -1, 1), point(2, 4, 2)>>}

Directions ==
    {point(dx, dy, dz) : dx \in {-1, 0, 1}, dy \in {-1, 1}, dz \in {-1, 0, 1}}
        \cup {point(1, 0, 0)}

\* the lattice points compute_lights is asked about
HitPoints == {point(x, y, z) : x \in 0..2, y \in 0..2, z \in 0..2}

InitCast ==
    /\ pc = "input"
    /\ \E sc \in Scenes, view \in Views :
           inp = [origin |-> view[1], sun |-> view[2],
                  ambient_light |-> ambient_light, diffuse_light |-> diffuse_light,
                  surfaces |-> [i \in 1..Len(sc) |->
                                   [triangle |-> sc[i], color |-> Palette[i]]]]
    /\ res = <<>>
    /\ num_cpus = 0
    /\ chunks_size = 0
    /\ offset = 0
    /\ tasks = <<>>
    /\ buff = <<>>
    /\ writes = <<>>
    /\ output = <<>>

\* cast_ray(env, ray) for a ray from the camera
CastRay ==
    /\ pc = "input"
    /\ \E dir \in Directions :
           LET ray == [direction |-> dir, origin |-> inp.origin]
           IN res' = [ray |-> ray, color |-> cast_ray(inp, ray)]
    /\ pc' = "cast_ray"
    /\ UNCHANGED <<inp, rays_vars>>

\* compute_lights(env, surface, pt) for a point pt of a surface of the scene
ComputeLights ==
    /\ pc = "input"
    /\ \E k \in 1..Len(inp.surfaces), pt \in HitPoints :
           /\ Triangle_contains(inp.surfaces[k].triangle, pt)
           /\ res' = [k |-> k, pt |-> pt,
                      brightness |-> compute_lights(inp, inp.surfaces[k].triangle, pt)]
    /\ pc' = "compute_lights"
    /\ UNCHANGED <<inp, rays_vars>>

NextCast ==
    \/ CastRay
    \/ ComputeLights

SpecCast == InitCast /\ [][NextCast]_vars

\* -------------------------------------------------------------------------
\* Claims about cast_ray and compute_lights (checked under SpecCast)

\* what triangle i of the scene answers to the ray
HitOf(env, ray, i) == Triangle_intersect(env.surfaces[i].triangle, ray)

\* the surfaces the ray meets at a parameter t >= -FLOAT_EPS
ForwardHits(env, ray) ==
    {i \in 1..Len(env.surfaces) :
        /\ HitOf(env, ray, i).some
        /\ ~RLt(HitOf(env, ray, i).val, RNeg(FLOAT_EPS))}

\* C5: cast_ray shades the forward hit with the least parameter t, the first
\* in scene order among several with that t, and returns VOID_COLOR when there
\* is no forward hit.
C5_NearestFirstHit ==
    pc = "cast_ray" =>
        LET hit  == [i \in 1..Len(inp.surfaces) |-> HitOf(inp, res.ray, i)]
            hits == {i \in 1..Len(inp.surfaces) :
                        hit[i].some /\ ~RLt(hit[i].val, RNeg(FLOAT_EPS))}
        IN IF hits = {}
           THEN res.color = VOID_COLOR
           ELSE \E i \in hits :
                    /\ \A j \in hits :
                           RLt(hit[i].val, hit[j].val)
                               \/ (hit[i].val = hit[j].val /\ i <= j)
                    /\ res.color =
                           shade(inp.surfaces[i].color,
                                 compute_lights(inp, inp.surfaces[i].triangle,
                                                at(res.ray, hit[i].val)))

\* two different surfaces are hit at the same least parameter, a third value
\* of the colour would result from shading the later one
C5_Witness ==
    /\ pc = "cast_ray"
    /\ \E i, j \in ForwardHits(inp, res.ray) :
           /\ i < j
           /\ HitOf(inp, res.ray, i).val = HitOf(inp, res.ray, j).val
           /\ \A k \in ForwardHits(inp, res.ray) :
                  RLe(HitOf(inp, res.ray, i).val, HitOf(inp, res.ray, k).val)
           /\ inp.surfaces[i].triangle # inp.surfaces[j].triangle
           /\ res.color # VOID_COLOR
           /\ res.color # shade(inp.surfaces[j].color,
                                compute_lights(inp, inp.surfaces[j].triangle,
                                               at(res.ray, HitOf(inp, res.ray, j).val)))

\* the shadow ray of pt
SunRay(env, pt) == [direction |-> vector(pt, env.sun), origin |-> pt]

\* surface i does not contain pt and meets the shadow ray at t >= -FLOAT_EPS
Occludes(env, pt, i) ==
    /\ ~Triangle_contains(env.surfaces[i].triangle, pt)
    /\ LET opt == Triangle_intersect(env.surfaces[i].triangle, SunRay(env, pt))
       IN opt.some /\ ~RLt(opt.val, RNeg(FLOAT_EPS))

\* the camera and the sun are strictly on the same side of the plane
FrontLit(env, plane) ==
    \/ RLt(R(0), subs(plane, env.origin)) /\ RLt(R(0), subs(plane, env.sun))
    \/ RLt(subs(plane, env.origin), R(0)) /\ RLt(subs(plane, env.sun), R(0))

\* the scene without the surfaces that occlude pt
WithoutOccluders(env, pt) ==
    LET idx == {i \in 1..Len(env.surfaces) : ~Occludes(env, pt, i)}
        RECURSIVE pick(_)
        pick(i) == IF i > Len(env.surfaces) THEN <<>>
                   ELSE IF i \in idx THEN <<env.surfaces[i]>> \o pick(i + 1)
                   ELSE pick(i + 1)
    IN [env EXCEPT !.surfaces = pick(1)]

\* C8: compute_lights returns the ambient level whenever a surface that does
\* not contain pt meets the shadow ray at t >= -FLOAT_EPS; surfaces containing
\* pt never occlude: with the occluders removed, a front-lit point is
\* strictly brighter than ambient.
C8_ShadowAmbient ==
    pc = "compute_lights" =>
        LET tri == inp.surfaces[res.k].triangle
            occluded == \E i \in 1..Len(inp.surfaces) : Occludes(inp, res.pt, i)
        IN /\ occluded => res.brightness = inp.ambient_light
           /\ FrontLit(inp, tri.plane) =>
                  RLt(inp.ambient_light,
                      compute_lights(WithoutOccluders(inp, res.pt), tri, res.pt))
           /\ (~occluded /\ FrontLit(inp, tri.plane)) =>
                  RLt(inp.ambient_light, res.brightness)

\* a front-lit point lies under another surface of the scene: it gets the
\* ambient level, and more once the occluder is removed
C8_Witness ==
    /\ pc = "compute_lights"
    /\ \E i \in 1..Len(inp.surfaces) : Occludes(inp, res.pt, i)
    /\ FrontLit(inp, inp.surfaces[res.k].triangle.plane)
    /\ res.brightness = inp.ambient_light
    /\ RLt(res.brightness,
           compute_lights(WithoutOccluders(inp, res.pt),
                          inp.surfaces[res.k].triangle, res.pt))

\* pt is lit: no occluder, camera and sun on the same side of the face
Lit ==
    /\ pc = "compute_lights"
    /\ ~\E i \in 1..Len(inp.surfaces) : Occludes(inp, res.pt, i)
    /\ FrontLit(inp, inp.surfaces[res.k].triangle.plane)

\* C9 as stated: a lit point has a brightness between ambient and
\* ambient + diffuse (0.4 and 0.6).
C9_Original ==
    Lit => /\ RLe(inp.ambient_light, res.brightness)
           /\ RLe(res.brightness, RAdd(inp.ambient_light, inp.diffuse_light))

\* C9 (amended): a lit point has a brightness between 1 - diffuse and 1 (0.8
\* and 1.0) for every angle; a point that is not lit gets exactly ambient
\* (0.4), which is lower than every lit value.
C9_LitRange ==
    /\ Lit => /\ RLe(RSub(R(1), inp.diffuse_light), res.brightness)
              /\ RLe(res.brightness, R(1))
              /\ RLt(inp.ambient_light, res.brightness)
    /\ (pc = "compute_lights" /\ ~Lit) => res.brightness = inp.ambient_light

\* a lit point whose shadow ray is neither along the normal nor in the plane
C9_Witness ==
    /\ Lit
    /\ RLt(RSub(R(1), inp.diffuse_light), res.brightness)
    /\ RLt(res.brightness, R(1))

\* -------------------------------------------------------------------------
\* SpecFold: the fold of Triangle::is_inside, one step per action, on three
\* vectors whose components are multiples of 1 / TinyScale (about 6e-5), so
\* that the products of two components are of the size of FLOAT_EPS

FoldVectors ==
    {[x |-> Rat(i, TinyScale), y |-> Rat(j, TinyScale), z |-> R(0)] :
        i \in (-MaxFold)..MaxFold, j \in 0..MaxFold}

InitFold ==
    /\ pc = 0
    /\ inp \in [1..3 -> FoldVectors]
    /\ res = Some(zero_vector)
    /\ num_cpus = 0
    /\ chunks_size = 0
    /\ offset = 0
    /\ tasks = <<>>
    /\ buff = <<>>
    /\ writes = <<>>
    /\ output = <<>>

\* one step of .fold(Some(vector!()), |last_opt, v| ...)
FoldStep ==
    /\ pc \in 0..2
    /\ res' = fold_step(res, inp[pc + 1])
    /\ pc' = pc + 1
    /\ UNCHANGED <<inp, rays_vars>>

NextFold == FoldStep

SpecFold == InitFold /\ [][NextFold]_vars

\* C10: the fold accepts (ends with Some) if and only if the three vectors are
\* pairwise is_codirectional.
C10_FoldIffPairwise ==
    pc = 3 =>
        (res.some <=> /\ is_codirectional(inp[1], inp[2])
                      /\ is_codirectional(inp[1], inp[3])
                      /\ is_codirectional(inp[2], inp[3]))

====
